---- MODULE Spec2Model ----
(***************************************************************************)
(* Model of services/sftp_service.py: download_from_server and             *)
(* upload_to_server over the two remote protocol variants (sftp, ftps).    *)
(*                                                                         *)
(* Strings are sequences of one-character strings, so that normpath,       *)
(* lstrip, startswith, split, join, dirname and basename are computed      *)
(* character by character as Python computes them.  A remote directory or  *)
(* file is the sequence of its path segments from the server root.         *)
(***************************************************************************)
EXTENDS Integers, Sequences, FiniteSets, TLC

VARIABLES
    pc,                 \* position in the function being executed
    conn_type,          \* "sftp" or "ftps"
    conn,               \* "unopened", "open" or "closed"
    outcome,            \* "none", "returned" or the kind of failure raised
    ops,                \* remote operations issued so far, in order
    relpath,            \* path validation: the relative path under test
    verdict,            \* path validation: "pending", "accepted", "rejected"
    archivos,           \* download: the listing returned by the server
    listing,            \* download: the remote directory content (server side)
    mtime,              \* download: modification time of each remote entry
    filename_startswith,\* download: name prefixes (a sequence of strings)
    from_date,          \* download: NoDate for "", else the date bound
    idx,                \* download: loop position in the filter/fetch loops
    seleccionados,      \* download: entries selected by the filter loop
    staged,             \* download: names fetched into download_path
    zip_names,          \* download: arcname of each archive member, in order
    remote_base,        \* upload: remote_directory or "."
    files,              \* upload: the batch, a sequence of relative paths
    item,               \* upload: index of the item being processed
    remote_path,        \* upload: join(remote_base, relposix) of the item
    remote_dir,         \* upload: dirname(remote_path) of the item
    uploaded,           \* upload: the result list
    dirs,               \* remote: set of existing directories
    stored,             \* remote: files written, in order of writing
    cwd,                \* remote: working directory of the ftps session
    home,               \* remote: directory relative paths start from
    denied,             \* remote: directories the server refuses to create
    lastEnsured,        \* upload: path of the last ensure call that returned
    retries,            \* upload: ensure_dir re-runs for the current item
    faults,             \* upload: commands the server failed for no stated cause
    initial,            \* paired run: the remote directories before the call
    first               \* paired run: what the first call left, once it ended

commonVars == <<pc, conn_type, conn, outcome, ops>>
pathVars == <<relpath, verdict>>
dlVars == <<archivos, listing, mtime, filename_startswith, from_date, idx,
            seleccionados, staged, zip_names>>
ulVars == <<remote_base, files, item, remote_path, remote_dir, uploaded,
            lastEnsured>>
remoteVars == <<dirs, stored, cwd, home, denied>>
auxVars == <<retries, faults, initial, first>>
vars == <<commonVars, pathVars, dlVars, ulVars, remoteVars, auxVars>>

-----------------------------------------------------------------------------
(* Bounds *)

MaxLen == 5          \* longest relative path explored by the path checks
MaxItems == 2        \* longest upload batch
MaxEntries == 3      \* longest remote listing
MaxDate == 2         \* modification times range over 1..MaxDate

-----------------------------------------------------------------------------
(* Python string operations on sequences of characters *)

SLASH == <<"/">>
DOT == <<".">>
DOTDOT == <<".", ".">>

\* str.startswith
StartsWith(s, p) == Len(p) <= Len(s) /\ SubSeq(s, 1, Len(p)) = p

\* str.endswith
EndsWith(s, p) == Len(p) <= Len(s) /\ SubSeq(s, Len(s) - Len(p) + 1, Len(s)) = p

\* str.lstrip("/")
RECURSIVE lstrip(_)
lstrip(s) == IF s # <<>> /\ Head(s) = "/" THEN lstrip(Tail(s)) ELSE s

\* str.rstrip("/")
RECURSIVE rstrip(_)
rstrip(s) ==
    IF s # <<>> /\ s[Len(s)] = "/" THEN rstrip(SubSeq(s, 1, Len(s) - 1)) ELSE s

\* str.split("/"): every component, empty ones included
RECURSIVE SplitAcc(_, _, _)
SplitAcc(s, cur, acc) ==
    IF s = <<>> THEN Append(acc, cur)
    ELSE IF Head(s) = "/" THEN SplitAcc(Tail(s), <<>>, Append(acc, cur))
    ELSE SplitAcc(Tail(s), Append(cur, Head(s)), acc)

split(s) == SplitAcc(s, <<>>, <<>>)

\* "/".join(comps)
RECURSIVE JoinSlash(_)
JoinSlash(comps) ==
    IF comps = <<>> THEN <<>>
    ELSE IF Len(comps) = 1 THEN comps[1]
    ELSE comps[1] \o SLASH \o JoinSlash(Tail(comps))

\* str.rfind("/") + 1
RECURSIVE RFindSlash(_)
RFindSlash(s) ==
    IF s = <<>> THEN 0
    ELSE IF s[Len(s)] = "/" THEN Len(s)
    ELSE RFindSlash(SubSeq(s, 1, Len(s) - 1))

\* the loop of posixpath.normpath over the components
RECURSIVE NormComps(_, _, _)
NormComps(comps, initial_slashes, new_comps) ==
    IF comps = <<>> THEN new_comps
    ELSE LET comp == Head(comps)
             rest == Tail(comps)
         IN IF comp = <<>> \/ comp = DOT
              THEN NormComps(rest, initial_slashes, new_comps)
            ELSE IF \/ comp # DOTDOT
                    \/ (initial_slashes = 0 /\ new_comps = <<>>)
                    \/ (new_comps # <<>> /\ new_comps[Len(new_comps)] = DOTDOT)
              THEN NormComps(rest, initial_slashes, Append(new_comps, comp))
            ELSE IF new_comps # <<>>
              THEN NormComps(rest, initial_slashes,
                             SubSeq(new_comps, 1, Len(new_comps) - 1))
            ELSE NormComps(rest, initial_slashes, new_comps)

\* posixpath.normpath
normpath(path) ==
    IF path = <<>> THEN DOT
    ELSE LET initial_slashes ==
                 IF StartsWith(path, <<"/", "/">>)
                    /\ ~StartsWith(path, <<"/", "/", "/">>) THEN 2
                 ELSE IF StartsWith(path, SLASH) THEN 1 ELSE 0
             new_comps == NormComps(split(path), initial_slashes, <<>>)
             joined == JoinSlash(new_comps)
             prefixed == IF initial_slashes = 2 THEN <<"/", "/">> \o joined
                         ELSE IF initial_slashes = 1 THEN SLASH \o joined
                         ELSE joined
         IN IF prefixed = <<>> THEN DOT ELSE prefixed

\* posixpath.join(a, b)
posixpath_join(a, b) ==
    IF StartsWith(b, SLASH) THEN b
    ELSE IF a = <<>> \/ EndsWith(a, SLASH) THEN a \o b
    ELSE a \o SLASH \o b

\* posixpath.dirname
dirname(p) ==
    LET head == SubSeq(p, 1, RFindSlash(p))
    IN IF head # <<>> /\ rstrip(head) # <<>> THEN rstrip(head) ELSE head

\* posixpath.basename
basename(p) == SubSeq(p, RFindSlash(p) + 1, Len(p))

\* [p for p in path.split("/") if p]
parts(path) == SelectSeq(split(path), LAMBDA p : p # <<>>)

-----------------------------------------------------------------------------
(* Path validation of upload_to_server *)

\* relposix = posixpath.normpath(relpath).lstrip("/")
relposix(rp) == lstrip(normpath(rp))

\* the item is skipped: relposix == "" or relposix.startswith("..")
Rejects(rp) == relposix(rp) = <<>> \/ StartsWith(relposix(rp), DOTDOT)

-----------------------------------------------------------------------------
(* The remote server: path resolution, directory creation, file creation *)

Parent(d) == SubSeq(d, 1, Len(d) - 1)

\* every prefix of the directories of S, the root included
PrefixClosure(S) ==
    UNION {{SubSeq(d, 1, n) : n \in 0..Len(d)} : d \in S} \cup {<<>>}

RECURSIVE Walk(_, _)
Walk(at, comps) ==
    IF comps = <<>> THEN at
    ELSE LET c == Head(comps)
         IN IF c = <<>> \/ c = DOT THEN Walk(at, Tail(comps))
            ELSE IF c = DOTDOT
              THEN Walk(IF at = <<>> THEN at ELSE Parent(at), Tail(comps))
            ELSE Walk(Append(at, c), Tail(comps))

\* the directory or file a path string names, seen from directory `at`
Resolve(at, path) ==
    Walk(IF StartsWith(path, SLASH) THEN <<>> ELSE at, split(path))

StoredAt(st) == {st[k].at : k \in 1..Len(st)}

\* the server accepts the creation of directory t
CanMkdir(d, st, t) ==
    /\ t # <<>>
    /\ t \notin d
    /\ t \notin StoredAt(st)
    /\ Parent(t) \in d
    /\ t[Len(t)] \notin denied

\* the server accepts the creation (or overwrite) of file t
CanStore(d, t) == t # <<>> /\ t \notin d /\ Parent(t) \in d

\* one remote operation: its name, its argument, the place it names, whether
\* the server accepted it, and the upload item being processed
Op(name, arg, at, ok) ==
    [op |-> name, arg |-> arg, at |-> at, ok |-> ok, item |-> item]

-----------------------------------------------------------------------------
(* ensure_dir of the ftps branch.  A state of the helper is a record        *)
(* [ok, dirs, cwd, log]: ok is FALSE once an exception escapes.             *)

\* try: ftps.cwd(p)  except: mkd(p); cwd(p), re-raising
EnsureSegment(s, p) ==
    LET t == Resolve(s.cwd, p)
    IN IF t \in s.dirs
         THEN [s EXCEPT !.cwd = t, !.log = Append(@, Op("cwd", p, t, TRUE))]
       ELSE IF CanMkdir(s.dirs, stored, t)
         THEN [s EXCEPT !.dirs = @ \cup {t}, !.cwd = t,
                        !.log = @ \o <<Op("cwd", p, t, FALSE),
                                       Op("mkd", p, t, TRUE),
                                       Op("cwd", p, t, TRUE)>>]
       ELSE [s EXCEPT !.ok = FALSE,
                      !.log = @ \o <<Op("cwd", p, t, FALSE),
                                     Op("mkd", p, t, FALSE)>>]

\* for p in parts: ...
RECURSIVE EnsureParts(_, _)
EnsureParts(s, ps) ==
    IF ps = <<>> \/ ~s.ok THEN s
    ELSE EnsureParts(EnsureSegment(s, Head(ps)), Tail(ps))

\* try: ftps.cwd(remote_base)  except: try mkd, cwd  except: pass
EnsureBase(s) ==
    LET t == Resolve(s.cwd, remote_base)
    IN IF t \in s.dirs
         THEN [s EXCEPT !.cwd = t,
                        !.log = Append(@, Op("cwd", remote_base, t, TRUE))]
       ELSE IF CanMkdir(s.dirs, stored, t)
         THEN [s EXCEPT !.dirs = @ \cup {t}, !.cwd = t,
                        !.log = @ \o <<Op("cwd", remote_base, t, FALSE),
                                       Op("mkd", remote_base, t, TRUE),
                                       Op("cwd", remote_base, t, TRUE)>>]
       ELSE [s EXCEPT !.log = @ \o <<Op("cwd", remote_base, t, FALSE),
                                     Op("mkd", remote_base, t, FALSE)>>]

\* ftps.cwd(path), raising when the directory does not exist
Chdir(s, path) ==
    LET t == Resolve(s.cwd, path)
    IN IF ~s.ok THEN s
       ELSE IF t \in s.dirs
         THEN [s EXCEPT !.cwd = t, !.log = Append(@, Op("cwd", path, t, TRUE))]
       ELSE [s EXCEPT !.ok = FALSE,
                      !.log = Append(@, Op("cwd", path, t, FALSE))]

ensure_dir(s, path) ==
    Chdir(EnsureParts(EnsureBase(s), parts(path)), remote_base)

-----------------------------------------------------------------------------
(* ensure_remote_dirs of the sftp branch: stat, then mkdir, of every        *)
(* cumulative path; a refused mkdir is ignored.                             *)

SftpSegment(s, cur) ==
    LET t == Resolve(home, cur)
    IN IF t \in s.dirs
         THEN [s EXCEPT !.log = Append(@, Op("stat", cur, t, TRUE))]
       ELSE IF CanMkdir(s.dirs, stored, t)
         THEN [s EXCEPT !.dirs = @ \cup {t},
                        !.log = @ \o <<Op("stat", cur, t, FALSE),
                                       Op("mkdir", cur, t, TRUE)>>]
       ELSE [s EXCEPT !.log = @ \o <<Op("stat", cur, t, FALSE),
                                     Op("mkdir", cur, t, FALSE)>>]

RECURSIVE SftpParts(_, _, _)
SftpParts(s, cur, ps) ==
    IF ps = <<>> THEN s
    ELSE LET next == IF cur # <<>> THEN posixpath_join(cur, Head(ps))
                     ELSE Head(ps)
         IN SftpParts(SftpSegment(s, next), next, Tail(ps))

ensure_remote_dirs(s, path) == SftpParts(s, <<>>, parts(path))

-----------------------------------------------------------------------------
(* Values of the variables a specification does not use *)

IdleCommon ==
    /\ conn = "unopened"
    /\ outcome = "none"
    /\ ops = <<>>

IdlePath == relpath = <<>> /\ verdict = "pending"

IdleDownload ==
    /\ archivos = <<>>
    /\ listing = <<>>
    /\ mtime = <<>>
    /\ filename_startswith = <<>>
    /\ from_date = 0
    /\ idx = 1
    /\ seleccionados = <<>>
    /\ staged = {}
    /\ zip_names = <<>>

IdleUpload ==
    /\ remote_base = DOT
    /\ files = <<>>
    /\ item = 1
    /\ remote_path = <<>>
    /\ remote_dir = <<>>
    /\ uploaded = <<>>
    /\ lastEnsured = <<>>

IdleRemote ==
    /\ dirs = {<<>>}
    /\ stored = <<>>
    /\ cwd = <<>>
    /\ home = <<>>
    /\ denied = {}

IdleAux ==
    /\ retries = 0
    /\ faults = 0
    /\ initial = {}
    /\ first = <<>>

-----------------------------------------------------------------------------
(* Path validation on its own: every relative path up to MaxLen characters *)

PathAlphabet == {"/", ".", "a"}

PathStrings == UNION {[1..k -> PathAlphabet] : k \in 0..MaxLen}

InitPath ==
    /\ pc = "path"
    /\ conn_type = "sftp"
    /\ IdleCommon
    /\ relpath \in PathStrings
    /\ verdict = "pending"
    /\ IdleDownload
    /\ IdleUpload
    /\ IdleRemote
    /\ IdleAux

\* lines 130-132 and 179-181: normalize, then skip or keep the item
PathValidate ==
    /\ pc = "path"
    /\ verdict' = IF Rejects(relpath) THEN "rejected" ELSE "accepted"
    /\ pc' = "pathdone"
    /\ UNCHANGED <<auxVars,
                   conn_type, conn, outcome, ops, relpath, dlVars, ulVars,
                   remoteVars>>

NextPath == PathValidate

SpecPath == InitPath /\ [][NextPath]_vars

-----------------------------------------------------------------------------
(* upload_to_server *)

A == <<"a">>
B == <<"b">>
C == <<"c">>
I == <<"i">>
H == <<"h">>

\* the remote_directory values explored: "/i", "i", "/", ""
RemoteDirectories == {SLASH \o I, I, SLASH, <<>>}

\* the relative paths explored: "a/b", "a/c", "c", "../c", ".", ""
RelPaths == {A \o SLASH \o B, A \o SLASH \o C, C, DOTDOT \o SLASH \o C,
             DOT, <<>>}

Batches == UNION {[1..k -> RelPaths] : k \in 0..MaxItems}

ConnTypes == {"sftp", "ftps", "scp"}

InitUpload ==
    /\ pc = "connect"
    /\ conn_type \in ConnTypes
    /\ IdleCommon
    /\ IdlePath
    /\ IdleDownload
    /\ \E remote_directory \in RemoteDirectories :
           remote_base = IF remote_directory = <<>> THEN DOT
                         ELSE remote_directory
    /\ files \in Batches
    /\ item = 1
    /\ remote_path = <<>>
    /\ remote_dir = <<>>
    /\ uploaded = <<>>
    /\ lastEnsured = <<>>
    /\ home \in {<<>>, <<H>>}
    /\ cwd = home
    /\ stored = <<>>
    /\ denied \in SUBSET {A, I}
    /\ LET base == Resolve(home, remote_base)
       IN \E extra \in SUBSET {base, Append(base, A),
                                Append(Append(base, A), A)} :
              dirs = PrefixClosure({home} \cup extra)
    /\ retries = 0
    /\ faults = 0
    /\ initial = dirs
    /\ first = <<>>

Session == [ok |-> TRUE, dirs |-> dirs, cwd |-> cwd, log |-> <<>>]

Raise(kind) == pc' = "raised" /\ outcome' = kind

\* lines 196-197: neither branch is taken
UlBadType ==
    /\ pc = "connect"
    /\ conn_type \notin {"sftp", "ftps"}
    /\ Raise("ValueError")
    /\ UNCHANGED <<auxVars,
                   conn_type, conn, ops, pathVars, dlVars, ulVars, remoteVars>>

\* lines 95-100 and 158-161: connect and log in
UlConnect ==
    /\ pc = "connect"
    /\ conn_type \in {"sftp", "ftps"}
    /\ \E accepted \in BOOLEAN :
          IF accepted
            THEN /\ conn' = "open"
                 /\ pc' = "validate"
                 /\ ops' = Append(ops, Op("open", <<>>, <<>>, TRUE))
                 /\ UNCHANGED <<outcome, faults>>
            ELSE /\ Raise("ConnectionError")
                 /\ faults' = faults + 1
                 /\ UNCHANGED <<conn, ops>>
    /\ UNCHANGED <<retries, initial, first,
                   conn_type, pathVars, dlVars, ulVars, remoteVars>>

\* the result path taken relative to nothing: the base is left out
remote_path_relative(rp) == relposix(rp)

\* lines 133 and 182: remote_path = posixpath.join(remote_base, relposix)
remote_path_of(rp) == posixpath_join(remote_base, relposix(rp))

\* a rejected item ends the batch
AfterReject_abort == "raised"

\* lines 132 and 181: continue, the loop goes on with the next item
AfterReject == "validate"

\* lines 128-136 and 178-184: normalize, skip, compute remote_path/remote_dir
UlValidate ==
    /\ pc = "validate"
    /\ item <= Len(files)
    /\ IF Rejects(files[item])
         THEN /\ item' = item + 1
              /\ pc' = AfterReject
              /\ UNCHANGED <<remote_path, remote_dir>>
         ELSE /\ remote_path' = remote_path_of(files[item])
              /\ remote_dir' = dirname(remote_path')
              /\ pc' = IF remote_dir' # <<>> /\ remote_dir' # DOT THEN "ensure"
                       ELSE IF conn_type = "ftps" THEN "cwd" ELSE "store"
              /\ UNCHANGED item
    /\ retries' = 0
    /\ UNCHANGED <<faults, initial, first,
                   conn_type, conn, outcome, ops, pathVars, dlVars, remote_base,
                   files, uploaded, lastEnsured, remoteVars>>

\* lines 137 and 185: the ensure call of the item
UlEnsure ==
    /\ pc = "ensure"
    /\ LET r == IF conn_type = "ftps" THEN ensure_dir(Session, remote_dir)
                ELSE ensure_remote_dirs(Session, remote_dir)
       IN /\ dirs' = r.dirs
          /\ cwd' = r.cwd
          /\ ops' = ops \o r.log
          /\ IF r.ok
               THEN /\ pc' = IF conn_type = "ftps" THEN "cwd" ELSE "store"
                    /\ lastEnsured' = <<remote_dir>>
                    /\ UNCHANGED outcome
               ELSE /\ Raise("DirectoryError")
                    /\ UNCHANGED lastEnsured
    /\ UNCHANGED <<auxVars,
                   conn_type, conn, pathVars, dlVars, remote_base, files, item,
                   remote_path, remote_dir, uploaded, stored, home, denied>>

\* line 144: ftps.cwd(remote_dir or remote_base), caught at line 145
UlCwd ==
    /\ pc = "cwd"
    /\ \E io_error \in BOOLEAN :
          LET target == IF remote_dir # <<>> THEN remote_dir ELSE remote_base
              r == Chdir(Session, target)
          IN IF io_error
               THEN /\ ops' = Append(ops, Op("cwd", target,
                                             Resolve(cwd, target), FALSE))
                    /\ pc' = "retry"
                    /\ faults' = faults + 1
                    /\ UNCHANGED cwd
               ELSE /\ cwd' = r.cwd
                    /\ ops' = ops \o r.log
                    /\ pc' = IF r.ok THEN "store" ELSE "retry"
                    /\ UNCHANGED faults
    /\ UNCHANGED <<retries, initial, first,
                   conn_type, conn, outcome, pathVars, dlVars, ulVars, dirs,
                   stored, home, denied>>

\* line 147: ensure_dir(remote_dir) after the failed cwd
UlRetryEnsure ==
    /\ pc = "retry"
    /\ LET r == ensure_dir(Session, remote_dir)
       IN /\ dirs' = r.dirs
          /\ cwd' = r.cwd
          /\ ops' = ops \o r.log
          /\ IF r.ok
               THEN /\ pc' = "recwd"
                    /\ lastEnsured' = <<remote_dir>>
                    /\ UNCHANGED outcome
               ELSE /\ Raise("DirectoryError")
                    /\ UNCHANGED lastEnsured
    /\ retries' = retries + 1
    /\ UNCHANGED <<faults, initial, first,
                   conn_type, conn, pathVars, dlVars, remote_base, files, item,
                   remote_path, remote_dir, uploaded, stored, home, denied>>

\* line 148: the second ftps.cwd(remote_dir or remote_base), not caught
UlRetryCwd ==
    /\ pc = "recwd"
    /\ LET r == Chdir(Session, IF remote_dir # <<>> THEN remote_dir
                               ELSE remote_base)
       IN /\ cwd' = r.cwd
          /\ ops' = ops \o r.log
          /\ IF r.ok THEN pc' = "store" /\ UNCHANGED outcome
             ELSE Raise("DirectoryError")
    /\ UNCHANGED <<auxVars,
                   conn_type, conn, pathVars, dlVars, ulVars, dirs, stored,
                   home, denied>>

\* lines 150-153 and 188-191: write the file, append remote_path
UlStore ==
    /\ pc = "store"
    /\ \E io_error \in BOOLEAN :
          LET arg == IF conn_type = "ftps" THEN basename(remote_path)
                     ELSE remote_path
              t == Resolve(IF conn_type = "ftps" THEN cwd ELSE home, arg)
              ok == ~io_error /\ CanStore(dirs, t)
          IN /\ ops' = Append(ops, Op("store", arg, t, ok))
             /\ faults' = IF io_error THEN faults + 1 ELSE faults
             /\ IF ok
                  THEN /\ stored' = Append(stored, [at |-> t, item |-> item])
                       /\ uploaded' = Append(uploaded, remote_path)
                       /\ item' = item + 1
                       /\ pc' = "validate"
                       /\ UNCHANGED outcome
                  ELSE /\ Raise("TransferError")
                       /\ UNCHANGED <<stored, uploaded, item>>
    /\ UNCHANGED <<retries, initial, first,
                   conn_type, conn, pathVars, dlVars, remote_base, files,
                   remote_path, remote_dir, lastEnsured, dirs, cwd, home,
                   denied>>

\* lines 155, 193-194 and 199: close the connection, return uploaded
UlFinish ==
    /\ pc = "validate"
    /\ item > Len(files)
    /\ conn' = "closed"
    /\ ops' = Append(ops, Op("close", <<>>, <<>>, TRUE))
    /\ pc' = "done"
    /\ outcome' = "returned"
    /\ UNCHANGED <<auxVars,
                   conn_type, pathVars, dlVars, ulVars, remoteVars>>

NextUpload ==
    \/ UlBadType
    \/ UlConnect
    \/ UlValidate
    \/ UlEnsure
    \/ UlCwd
    \/ UlRetryEnsure
    \/ UlRetryCwd
    \/ UlStore
    \/ UlFinish

SpecUpload == InitUpload /\ [][NextUpload]_vars

-----------------------------------------------------------------------------
(* download_from_server *)

R == <<"r">>
X == <<"x">>

\* from_date == "": no date filter
NoDate == 0

\* the entry names explored: "ia", "ib", "r", "i"
Names == {I \o A, I \o B, R, I}

\* the prefix lists explored: [], ["i"], ["ia", "r"], ["x"]
PrefixLists == {<<>>, <<I>>, <<I \o A, R>>, <<X>>}

Range(f) == {f[k] : k \in DOMAIN f}

\* listings: distinct names in any order
Listings ==
    {l \in UNION {[1..k -> Names] : k \in 0..MaxEntries} :
        \A j, k \in DOMAIN l : j # k => l[j] # l[k]}

InitDownload ==
    /\ pc = "dl_connect"
    /\ conn_type \in ConnTypes
    /\ IdleCommon
    /\ IdlePath
    /\ IdleUpload
    /\ IdleRemote
    /\ IdleAux
    /\ listing \in Listings
    /\ mtime \in [Range(listing) -> 1..MaxDate]
    /\ filename_startswith \in PrefixLists
    /\ from_date \in {NoDate} \cup (1..MaxDate)
    /\ archivos = <<>>
    /\ idx = 1
    /\ seleccionados = <<>>
    /\ staged = {}
    /\ zip_names = <<>>

\* line 57: filename_startswith and not any(archivo.startswith(p) ...)
PrefixMiss(archivo) ==
    /\ filename_startswith # <<>>
    /\ ~\E k \in DOMAIN filename_startswith :
           StartsWith(archivo, filename_startswith[k])

\* the modification time asked for whether or not a date was given
DateFilterGiven_always == TRUE

\* line 59: from_date and ...: the date test is skipped for from_date == ""
DateFilterGiven == from_date # NoDate

\* the date test with the bound made exclusive
TooOld_excl(archivo) == mtime[archivo] <= from_date

\* line 59: get_mod_time(archivo) < datetime.fromisoformat(from_date)
TooOld(archivo) == mtime[archivo] < from_date

\* the emptiness test left out
NoneSelected_never == FALSE

\* line 63: not seleccionados
NoneSelected == seleccionados = <<>>

\* lines 52-53: neither branch is taken
DlBadType ==
    /\ pc = "dl_connect"
    /\ conn_type \notin {"sftp", "ftps"}
    /\ Raise("ValueError")
    /\ UNCHANGED <<auxVars,
                   conn_type, conn, ops, pathVars, dlVars, ulVars, remoteVars>>

\* lines 20-26 and 39-42: connect and log in
DlConnect ==
    /\ pc = "dl_connect"
    /\ conn_type \in {"sftp", "ftps"}
    /\ \E accepted \in BOOLEAN :
          IF accepted
            THEN /\ conn' = "open"
                 /\ pc' = "list"
                 /\ ops' = Append(ops, Op("open", <<>>, <<>>, TRUE))
                 /\ UNCHANGED outcome
            ELSE /\ Raise("ConnectionError")
                 /\ UNCHANGED <<conn, ops>>
    /\ UNCHANGED <<auxVars,
                   conn_type, pathVars, dlVars, ulVars, remoteVars>>

\* lines 27-29 and 43: cwd + nlst, or listdir
DlList ==
    /\ pc = "list"
    /\ \E io_error \in BOOLEAN :
          /\ ops' = Append(ops, Op("list", <<>>, <<>>, ~io_error))
          /\ IF io_error
               THEN Raise("ListError") /\ UNCHANGED archivos
               ELSE /\ archivos' = listing
                    /\ pc' = "filter"
                    /\ UNCHANGED outcome
    /\ UNCHANGED <<auxVars,
                   conn_type, conn, pathVars, listing, mtime,
                   filename_startswith, from_date, idx, seleccionados, staged,
                   zip_names, ulVars, remoteVars>>

\* lines 56-61: one iteration of the filter loop
DlFilter ==
    /\ pc = "filter"
    /\ idx <= Len(archivos)
    /\ LET archivo == archivos[idx]
       IN IF PrefixMiss(archivo)
            THEN /\ idx' = idx + 1
                 /\ UNCHANGED <<pc, outcome, ops, seleccionados>>
          ELSE IF DateFilterGiven
            THEN \E io_error \in BOOLEAN :
                   /\ ops' = Append(ops, Op("modifiedAt", archivo, <<>>,
                                            ~io_error))
                   /\ IF io_error
                        THEN /\ Raise("ModifiedAtError")
                             /\ UNCHANGED <<idx, seleccionados>>
                        ELSE /\ idx' = idx + 1
                             /\ seleccionados' =
                                    IF TooOld(archivo) THEN seleccionados
                                    ELSE Append(seleccionados, archivo)
                             /\ UNCHANGED <<pc, outcome>>
          ELSE /\ idx' = idx + 1
               /\ seleccionados' = Append(seleccionados, archivo)
               /\ UNCHANGED <<pc, outcome, ops>>
    /\ UNCHANGED <<auxVars,
                   conn_type, conn, pathVars, archivos, listing, mtime,
                   filename_startswith, from_date, staged, zip_names, ulVars,
                   remoteVars>>

\* the no-match exit without its raise: close_func(), then the download loop
DlNoMatch_noraise ==
    /\ pc = "filter"
    /\ idx > Len(archivos)
    /\ NoneSelected
    /\ conn' = "closed"
    /\ ops' = Append(ops, Op("close", <<>>, <<>>, TRUE))
    /\ pc' = "fetch"
    /\ idx' = 1
    /\ UNCHANGED <<auxVars, conn_type, outcome, pathVars, archivos, listing,
                   mtime, filename_startswith, from_date, seleccionados, staged,
                   zip_names, ulVars, remoteVars>>

\* lines 63-65: nothing selected: close_func(), raise
DlNoMatch ==
    /\ pc = "filter"
    /\ idx > Len(archivos)
    /\ NoneSelected
    /\ conn' = "closed"
    /\ ops' = Append(ops, Op("close", <<>>, <<>>, TRUE))
    /\ Raise("SelectionError")
    /\ UNCHANGED <<auxVars,
                   conn_type, pathVars, dlVars, ulVars, remoteVars>>

\* line 63, condition false: go on to the download loop
DlSelected ==
    /\ pc = "filter"
    /\ idx > Len(archivos)
    /\ ~NoneSelected
    /\ pc' = "fetch"
    /\ idx' = 1
    /\ UNCHANGED <<auxVars,
                   conn_type, conn, outcome, ops, pathVars, archivos, listing,
                   mtime, filename_startswith, from_date, seleccionados, staged,
                   zip_names, ulVars, remoteVars>>

\* lines 68-70: fetch one selected entry into download_path
DlFetch ==
    /\ pc = "fetch"
    /\ idx <= Len(seleccionados)
    /\ \E io_error \in BOOLEAN :
          /\ ops' = Append(ops, Op("fetch", seleccionados[idx], <<>>,
                                   ~io_error))
          /\ IF io_error
               THEN Raise("TransferError") /\ UNCHANGED <<idx, staged>>
               ELSE /\ staged' = staged \cup {seleccionados[idx]}
                    /\ idx' = idx + 1
                    /\ UNCHANGED <<pc, outcome>>
    /\ UNCHANGED <<auxVars,
                   conn_type, conn, pathVars, archivos, listing, mtime,
                   filename_startswith, from_date, seleccionados, zip_names,
                   ulVars, remoteVars>>

\* lines 72-81: close_func(), then zip the staged files under their names
DlFinish ==
    /\ pc = "fetch"
    /\ idx > Len(seleccionados)
    /\ conn' = "closed"
    /\ ops' = Append(ops, Op("close", <<>>, <<>>, TRUE))
    /\ zip_names' = SelectSeq(seleccionados, LAMBDA f : f \in staged)
    /\ pc' = "done"
    /\ outcome' = "returned"
    /\ UNCHANGED <<auxVars,
                   conn_type, pathVars, archivos, listing, mtime,
                   filename_startswith, from_date, idx, seleccionados, staged,
                   ulVars, remoteVars>>

NextDownload ==
    \/ DlBadType
    \/ DlConnect
    \/ DlList
    \/ DlFilter
    \/ DlNoMatch
    \/ DlSelected
    \/ DlFetch
    \/ DlFinish

SpecDownload == InitDownload /\ [][NextDownload]_vars

-----------------------------------------------------------------------------
(* Properties of download_from_server, checked under SpecDownload *)

\* the selection rule of the data model: prefix match and date bound
Matches(e) ==
    /\ \/ filename_startswith = <<>>
       \/ \E k \in DOMAIN filename_startswith :
              StartsWith(e, filename_startswith[k])
    /\ from_date = NoDate \/ mtime[e] >= from_date

Filtered == SelectSeq(listing, Matches)

\* C1: a download that returns yields an archive whose member names are
\* exactly the listed entries that match the prefixes and the (inclusive)
\* date bound, in listing order, nothing added, dropped or reordered.
C1_ArchiveIsFilteredListing ==
    (pc = "done" /\ outcome = "returned") => zip_names = Filtered

\* C1 witness: a returned archive that kept an entry modified exactly at the
\* date bound and dropped at least one listed entry, with prefixes given.
C1_Witness ==
    /\ pc = "done"
    /\ outcome = "returned"
    /\ filename_startswith # <<>>
    /\ from_date # NoDate
    /\ \E k \in DOMAIN zip_names : mtime[zip_names[k]] = from_date
    /\ Len(zip_names) >= 2
    /\ Len(zip_names) < Len(listing)

\* C2: on every exit of download, once the connection was opened it has been
\* closed: after success, after no match, and after a failing listing,
\* modifiedAt query or fetch.
C2_DownloadClosesOnEveryExit ==
    outcome \in {"returned", "SelectionError", "ListError", "ModifiedAtError",
                 "TransferError"}
        => conn = "closed"

\* C8: when no listed entry satisfies the criteria, download never returns an
\* archive, and once the filter loop has run to its end the call fails with
\* the no-matches error; a returned archive is never empty.
C8_EmptySelectionFails ==
    /\ [](outcome = "returned" => (Filtered # <<>> /\ zip_names # <<>>))
    /\ [][(pc = "filter" /\ idx > Len(archivos) /\ Filtered = <<>>)
            => (pc' = "raised" /\ outcome' = "SelectionError"
                /\ zip_names' = <<>>)]_vars

\* C8 witness: a non-empty listing filtered down to nothing ends in the
\* no-matches error.
C8_Witness ==
    /\ outcome = "SelectionError"
    /\ listing # <<>>
    /\ Filtered = <<>>
    /\ conn = "closed"

-----------------------------------------------------------------------------
(* Properties of upload_to_server, checked under SpecUpload and SpecPath *)

\* the first segment of a normalized relative path
FirstSegment(n) == IF parts(n) = <<>> THEN <<>> ELSE Head(parts(n))

\* a relative path that may be sent to the remote: after normalization it is
\* not empty, not ".", and does not begin with the segment ".."
WellFormed(rp) ==
    LET n == lstrip(normpath(rp))
    IN n # <<>> /\ n # DOT /\ FirstSegment(n) # DOTDOT

EnsureOps == {"cwd", "mkd", "stat", "mkdir"}

\* C3: on every exit of upload, once the connection was opened it has been
\* closed, also when ensureDirectory or store fails for some item.
C3_UploadClosesOnEveryExit ==
    (pc \in {"done", "raised"} /\ outcome \in {"returned", "DirectoryError",
                                              "TransferError"})
        => conn = "closed"

\* C4: every store and every ensureDirectory operation issued, and every
\* file written, comes from an item whose normalized relative path is
\* non-empty, not "." and not parent-traversing.
C4_OnlyWellFormedItemsReachRemote ==
    /\ \A k \in DOMAIN ops :
           ops[k].op \in EnsureOps \cup {"store"}
               => WellFormed(files[ops[k].item])
    /\ \A k \in DOMAIN stored : WellFormed(files[stored[k].item])

\* C5: validation rejects a relative path exactly when it is empty after
\* normalization or its first normalized segment is "..".
C5_RejectsIffEmptyOrTraversal ==
    verdict # "pending" =>
        (verdict = "rejected" <=> ~WellFormed(relpath))

\* C6: once ensureDirectory has returned for an item whose containing
\* directory is not remoteBase, that directory exists on the remote at the
\* path remote_dir names, and so it does when the store is issued.
C6_EnsuredDirectoryExists ==
    (pc \in {"cwd", "store"} /\ remote_dir # remote_base
        /\ lastEnsured = <<remote_dir>>)
        => Resolve(home, remote_dir) \in dirs

\* indexes of the items the validation step keeps, in input order
RECURSIVE AcceptedFrom(_)
AcceptedFrom(k) ==
    IF k > Len(files) THEN <<>>
    ELSE IF Rejects(files[k]) THEN AcceptedFrom(k + 1)
    ELSE <<k>> \o AcceptedFrom(k + 1)

Accepted == AcceptedFrom(1)

\* remoteBase + "/" + normalizedRelativePath
PlainJoin(rp) == remote_base \o SLASH \o relposix(rp)

\* the same with a single separator when remoteBase ends with "/"
SingleSeparatorJoin(rp) ==
    IF EndsWith(remote_base, SLASH) THEN remote_base \o relposix(rp)
    ELSE PlainJoin(rp)

\* the files were written one after the other, in the order of the kept items
StoredInOrder == [k \in DOMAIN stored |-> stored[k].item] = Accepted

\* C7 as stated: a completed upload returns remoteBase + "/" + normalized
\* path for each kept item, in input order, stores issued in that order.
C7_ResultIsBaseSlashPath ==
    (pc = "done" /\ outcome = "returned") =>
        /\ uploaded = [k \in DOMAIN Accepted |-> PlainJoin(files[Accepted[k]])]
        /\ StoredInOrder

\* C7 amended: a completed upload returns, for each kept item in input
\* order, remoteBase and the normalized path joined by exactly one "/" (none
\* is added when remoteBase already ends with "/"); stores in that order.
C7_ResultIsJoinedPath ==
    (pc = "done" /\ outcome = "returned") =>
        /\ uploaded = [k \in DOMAIN Accepted |->
                            SingleSeparatorJoin(files[Accepted[k]])]
        /\ StoredInOrder

\* C7 witness: a completed batch whose first item was skipped and whose
\* second was stored below a base ending with "/".
C7_Witness ==
    /\ pc = "done"
    /\ outcome = "returned"
    /\ Len(files) = 2
    /\ Accepted = <<2>>
    /\ Len(uploaded) = 1
    /\ EndsWith(remote_base, SLASH)

\* C9: after the server refuses to create a directory segment for an item,
\* no store is attempted for that item.
C9_RefusedMkdirAbortsBeforeStore ==
    \A j, k \in DOMAIN ops :
        (j < k /\ ops[j].op \in {"mkd", "mkdir"} /\ ~ops[j].ok
            /\ ops[k].op = "store")
            => ops[j].item # ops[k].item

\* C10: an ensure call for the path of the last ensure call that returned
\* does not fail and leaves the set of remote directories unchanged.
C10_EnsureIsIdempotent ==
    [][(pc \in {"ensure", "retry"} /\ lastEnsured = <<remote_dir>>)
          => (pc' # "raised" /\ dirs' = dirs)]_vars

-----------------------------------------------------------------------------
(* Further properties of upload_to_server *)

Failures == {"DirectoryError", "TransferError"}

IsPrefix(s, t) == Len(s) <= Len(t) /\ SubSeq(t, 1, Len(s)) = s

RemoteOps == {"open", "cwd", "mkd", "stat", "mkdir", "store", "close"}

C11_SkipWitness ==
    /\ pc = "done"
    /\ Len(files) = 2
    /\ Rejects(files[1])
    /\ Len(stored) = 1
    /\ stored[1].item = 2

-----------------------------------------------------------------------------
(* The same call made twice, first over sftp and then over ftps, each time   *)
(* against the same remote directories                                       *)

\* what a call leaves for an observer: the remote directories and files, the
\* success or failure of the call, and the returned list
Observation ==
    [dirs |-> dirs, files |-> StoredAt(stored), ok |-> outcome = "returned",
     uploaded |-> uploaded]

InitUploadPair == InitUpload /\ conn_type = "sftp"

\* the sftp call has ended: keep what it left, put the remote back as it
\* was, and enter upload_to_server again with conn_type = "ftps"
UlSecondRun ==
    /\ pc \in {"done", "raised"}
    /\ conn_type = "sftp"
    /\ first = <<>>
    /\ first' = <<Observation>>
    /\ conn_type' = "ftps"
    /\ pc' = "connect"
    /\ conn' = "unopened"
    /\ outcome' = "none"
    /\ ops' = <<>>
    /\ item' = 1
    /\ remote_path' = <<>>
    /\ remote_dir' = <<>>
    /\ uploaded' = <<>>
    /\ lastEnsured' = <<>>
    /\ retries' = 0
    /\ dirs' = initial
    /\ stored' = <<>>
    /\ cwd' = home
    /\ UNCHANGED <<pathVars, dlVars, remote_base, files, home, denied, faults,
                   initial>>

NextUploadPair ==
    \/ UlConnect
    \/ UlValidate
    \/ UlEnsure
    \/ UlCwd
    \/ UlRetryEnsure
    \/ UlRetryCwd
    \/ UlStore
    \/ UlFinish
    \/ UlSecondRun

SpecUploadPair == InitUploadPair /\ [][NextUploadPair]_vars

\* C12: for the same remoteBase, items and initial remote directories, and
\* with no command failed by the server for an outside cause, the ftps call
\* ends with the same remote directories and files, the same success or
\* failure and the same result list as the sftp call.
C12_VariantsObservablyEqual ==
    (first # <<>> /\ pc \in {"done", "raised"} /\ faults = 0)
        => Observation = first[1]

-----------------------------------------------------------------------------
(* Where the ftps variant writes *)

\* C13: in the ftps variant every file is written at the place its reported
\* remote path names (seen from the login directory), whatever working
\* directory the earlier ensure and store steps left behind.
C13_FtpsStoresAtReportedPath ==
    conn_type = "ftps" =>
        /\ Len(stored) = Len(uploaded)
        /\ \A k \in DOMAIN stored :
               stored[k].at = Resolve(home, uploaded[k])

-----------------------------------------------------------------------------
(* Either call: a transfer session from its opening to its end *)

InitTransfer == InitDownload \/ InitUpload

NextTransfer == NextDownload \/ NextUpload

SpecTransfer == InitTransfer /\ [][NextTransfer]_vars

\* C14: in download and upload, over both variants, close is the last remote
\* operation of a session: no list, modifiedAt, fetch, cwd, mkd, stat, mkdir
\* or store is issued after it, and it is issued at most once.
C14_ClosedIsTerminal ==
    /\ [](\A k \in DOMAIN ops : ops[k].op = "close" => k = Len(ops))
    /\ [](conn = "closed" <=> (ops # <<>> /\ ops[Len(ops)].op = "close"))
    /\ [][conn = "closed" => (conn' = "closed" /\ ops' = ops)]_vars

\* C14 witness: a session that transferred something and was then closed.
C14_Witness ==
    /\ conn = "closed"
    /\ ops[Len(ops)].op = "close"
    /\ \E k \in DOMAIN ops : ops[k].op \in {"store", "fetch"} /\ ops[k].ok

-----------------------------------------------------------------------------
(* Remote operations of the filter loop of download_from_server *)

ModifiedAtOps == {k \in DOMAIN ops : ops[k].op = "modifiedAt"}

\* C15: without a date filter no modifiedAt query is issued; with one, each
\* listed entry is queried at most once; a step of the filter loop issues no
\* other remote operation and changes nothing on the remote.
C15_ModifiedAtOnlyForDateFilter ==
    /\ [](from_date = NoDate => ModifiedAtOps = {})
    /\ [](\A j, k \in ModifiedAtOps : ops[j].arg = ops[k].arg => j = k)
    /\ [](\A k \in ModifiedAtOps : ops[k].arg \in Range(listing))
    /\ [][pc = "filter" =>
            /\ listing' = listing
            /\ mtime' = mtime
            /\ staged' = staged
            /\ \/ ops' = ops
               \/ /\ Len(ops') = Len(ops) + 1
                  /\ SubSeq(ops', 1, Len(ops)) = ops
                  /\ ops'[Len(ops')].op \in {"modifiedAt", "close"}]_vars

\* C15 witness: a download of two or more listed entries, without a date
\* filter, ran to its end and kept them without any modifiedAt query.
C15_Witness ==
    /\ pc = "done"
    /\ from_date = NoDate
    /\ Len(archivos) >= 2
    /\ Len(zip_names) >= 2
    /\ ModifiedAtOps = {}

\* C15 witness with a date filter: every listed entry was queried once.
C15_DateWitness ==
    /\ pc = "done"
    /\ from_date # NoDate
    /\ Len(archivos) >= 2
    /\ Cardinality(ModifiedAtOps) = Len(archivos)

-----------------------------------------------------------------------------
(* When the ensure helpers are called, and what they create *)

\* C16: for a kept item the ensure helper is called exactly when the item's
\* containing directory is not remoteBase itself.
C16_EnsureOnlyBelowBase ==
    [][(pc = "validate" /\ pc' \in {"ensure", "cwd", "store"})
          => (pc' = "ensure" <=> remote_dir' # remote_base)]_vars

-----------------------------------------------------------------------------
(* upload_files of sftptools_app.py: the extraction of one archive member,   *)
(* on a host where os.path is posixpath                                       *)

BACKSLASH == <<"\\">>

\* str.lstrip("\\/")
RECURSIVE lstrip_seps(_)
lstrip_seps(s) ==
    IF s # <<>> /\ Head(s) \in {"\\", "/"} THEN lstrip_seps(Tail(s)) ELSE s

\* str.replace("\\", "/")
replace_backslash(s) == [k \in DOMAIN s |-> IF s[k] = "\\" THEN "/" ELSE s[k]]

\* norm = os.path.normpath(member).lstrip("\\/")
member_norm(member) == lstrip_seps(normpath(member))

\* lines 112-115: the member is left out
MemberSkipped(member) ==
    \/ member_norm(member) = <<>>
    \/ StartsWith(member_norm(member), DOTDOT)
    \/ EndsWith(member, SLASH)

ZipAlphabet == {"/", ".", "a", "\\"}

ZipNames == UNION {[1..k -> ZipAlphabet] : k \in 0..MaxLen}

InitZip ==
    /\ pc = "zip"
    /\ conn_type = "sftp"
    /\ IdleCommon
    /\ relpath \in ZipNames
    /\ verdict = "pending"
    /\ IdleDownload
    /\ IdleUpload
    /\ IdleRemote
    /\ IdleAux

\* lines 109-117: one iteration of the loop over z.namelist()
ZipExtract ==
    /\ pc = "zip"
    /\ IF MemberSkipped(relpath)
         THEN verdict' = "skipped" /\ UNCHANGED files
         ELSE /\ verdict' = "handed"
              /\ files' = Append(files, replace_backslash(member_norm(relpath)))
    /\ pc' = "zipdone"
    /\ UNCHANGED <<auxVars, conn_type, conn, outcome, ops, relpath, dlVars,
                   remote_base, item, remote_path, remote_dir, uploaded,
                   lastEnsured, remoteVars>>

NextZip == ZipExtract

SpecZip == InitZip /\ [][NextZip]_vars

\* C17: an archive member that is not a directory entry is handed to the
\* core exactly when the core's own validation would keep it, and nothing
\* handed to the core is then rejected by that validation.
C17_ExtractionAppliesCoreRule ==
    pc = "zipdone" =>
        /\ ~EndsWith(relpath, SLASH) =>
               (verdict = "handed" <=> ~Rejects(relpath))
        /\ \A k \in DOMAIN files : ~Rejects(files[k])

-----------------------------------------------------------------------------
(* Directories created by upload_to_server *)

\* the directory remote_base names, seen from the login directory
BaseDir == Resolve(home, remote_base)

\* the directory that is to contain item k
ContainingDir(k) == Resolve(home, dirname(remote_path_of(files[k])))

\* d is remoteBase or lies below it, on the way to the containing directory
\* of some kept item
OnTheWay(d) ==
    /\ IsPrefix(BaseDir, d)
    /\ \E k \in DOMAIN files : ~Rejects(files[k]) /\ IsPrefix(d, ContainingDir(k))

\* C18: every directory created during an upload is remoteBase or one of
\* the directories between remoteBase and the containing directory of a
\* kept item.
C18_CreatesOnlyOnTheWay ==
    /\ \A k \in DOMAIN ops :
           (ops[k].op \in {"mkd", "mkdir"} /\ ops[k].ok) => OnTheWay(ops[k].at)
    /\ \A d \in dirs \ initial : OnTheWay(d)

-----------------------------------------------------------------------------
(* The retry of the ftps branch, lines 143-148 *)

\* C19: in the ftps variant, after the change into the containing directory
\* failed, ensure_dir is re-run once and the change of directory retried
\* once; when the retry fails the batch ends with that failure and the item
\* is neither stored nor reported; a store that follows a retry writes into
\* the item's containing directory.
C19_RetryOnceThenAbortOrStoreInPlace ==
    /\ [](retries <= 1)
    /\ [][pc = "retry" => (pc' \in {"recwd", "raised"} /\ retries' = 1)]_vars
    /\ [][pc = "recwd" =>
            /\ pc' \in {"store", "raised"}
            /\ pc' = "raised" => outcome' = "DirectoryError"
            /\ stored' = stored
            /\ uploaded' = uploaded]_vars
    /\ [](pc = "raised" /\ retries = 1 =>
            /\ \A k \in DOMAIN stored : stored[k].item # item
            /\ Len(uploaded) = Len(stored))
    /\ [][(pc = "store" /\ retries = 1 /\ Len(stored') > Len(stored))
            => Parent(stored'[Len(stored')].at) = Resolve(home, remote_dir)]_vars

====
